---- MODULE Spec2Model ----
(***************************************************************************)
(* Model of src/rn42.py: the RN42 class, an abstraction of the RN-42       *)
(* bluetooth kit driven over a serial transport.  Text is modelled by TLA+ *)
(* strings (Len, SubSeq and \o act on them character by character).        *)
(* Every method of the class is one action; the transport's answer to each *)
(* SendReceive call is an input of the action.                             *)
(***************************************************************************)
EXTENDS Integers, Sequences, FiniteSets, TLC

VARIABLES
    command_mode,   \* self._command_mode
    closed,         \* self._closed
    alive,          \* the object has not been finalised (__del__ not yet run)
    disconnects,    \* number of self._serial.Disconnect() calls so far
    nOps,           \* number of method calls made on the object so far
    last            \* record of the most recent method call

vars == <<command_mode, closed, alive, disconnects, nOps, last>>

\* Length of the longest session (number of method calls) explored.
MaxOps == 3

----------------------------------------------------------------------------
(* Class constants                                                         *)

CHIP_NAME == "RNBT"
RETRY == 2

\* Variant: a bare line feed as the line terminator.
NEWLINE_LF == "\n"

NEWLINE == "\r\n"
AOK == "AOK"
CMD_ENTER_COMMAND_MODE == "$$$"
CMD_LEAVE_COMMAND_MODE == "---"
CMD_REBOOT == "R,1"
CMD_GET_CHIP_NAME == "GN"
CMD_GET_FIRMWARE_VERSION == "V"
CMD_GET_OPERATION_MODE == "GM"
CMD_SET_MASTER_MODE == "SM,1"
CMD_SET_SLAVE_MODE == "SM,0"
CMD_GET_AUTHENTICATION_MODE == "GA"
CMD_SET_AUTHENTICATION_OPEN_MODE == "SA,0"
CMD_SET_AUTHENTICATION_PIN_MODE == "SA,4"
PROFILE_SPP == "0"
PROFILE_HID == "6"
CMD_GET_SERVICE_PROFILE == "G~"
CMD_SET_SERVICE_PROFILE_SPP == "S~," \o PROFILE_SPP
CMD_SET_SERVICE_PROFILE_HID == "S~," \o PROFILE_HID
CMD_GET_RN42_BLUETOOTH_MAC == "GB"
CMD_GET_CONNECTION_STATUS == "GK"
CMD_GET_REMOTE_CONNECTED_BLUETOOTH_MAC == "GF"
CMD_GET_HID == "GH"
CMD_SET_HID_KEYBOARD == "SH,0000"
CMD_SET_HID_GAMEPAD == "SH,0010"
CMD_SET_HID_MOUSE == "SH,0020"
CMD_SET_HID_COMBO == "SH,0030"
CMD_SET_HID_JOYSTICK == "SH,0040"

\* The decoding tables, as sets of <<key, value>> pairs.
OPERATION_MODE ==
    { <<"Slav", "SLAVE">>, <<"Mstr", "MASTER">>, <<"Trig", "TRIGGER">>,
      <<"Auto", "AUTO">>, <<"DTR", "DTR">>, <<"Any", "ANY">>,
      <<"Pair", "PAIR">> }

AUTHENTICATION_MODE ==
    { <<"0", "OPEN">>, <<"1", "SSP_KEYBOARD">>, <<"2", "SSP_JUST_WORK">>,
      <<"4", "PIN_CODE">> }

SERVICE_PROFILE ==
    { <<"0", "SPP">>, <<"1", "DUN_DCE">>, <<"2", "DUN_DTE">>,
      <<"3", "MDM_SPP">>, <<"4", "SPP_AND_DUN_DCE">>, <<"5", "APL">>,
      <<"6", "HID">> }

HID_DEVICE_TYPE ==
    { <<"0200", "KEYBOARD">>, <<"0210", "GAMEPAD">>, <<"0220", "MOUSE">>,
      <<"0230", "COMBO">>, <<"0240", "JOYSTICK">>, <<"0250", "DIGITIZER">>,
      <<"0260", "SENSOR">>, <<"0270", "USECFG">> }

----------------------------------------------------------------------------
(* Text primitives of Python used by the class                             *)

Whitespace == {" ", "\t", "\n", "\r", "\f"}

RECURSIVE lstrip(_)
lstrip(s) ==
    IF Len(s) > 0 /\ SubSeq(s, 1, 1) \in Whitespace
    THEN lstrip(SubSeq(s, 2, Len(s)))
    ELSE s

RECURSIVE rstrip(_)
rstrip(s) ==
    IF Len(s) > 0 /\ SubSeq(s, Len(s), Len(s)) \in Whitespace
    THEN rstrip(SubSeq(s, 1, Len(s) - 1))
    ELSE s

\* str.strip(): leading and trailing whitespace removed
strip(s) == rstrip(lstrip(s))

\* needle in hay
Contains(needle, hay) ==
    \E i \in 0..(Len(hay) - Len(needle)) :
        SubSeq(hay, i + 1, i + Len(needle)) = needle

\* s.startswith(prefix)
startswith(s, prefix) ==
    Len(prefix) <= Len(s) /\ SubSeq(s, 1, Len(prefix)) = prefix

----------------------------------------------------------------------------
(* The transport: what one self._serial.SendReceive(...) call can produce  *)

\* Raw replies (before .decode().strip()) the chip can put on the line.
RawReplies ==
    { "", "\r\n",
      "CMD\r\n", "x?CMD\r\n", "END\r\n", "ENDED\r\n",
      "RNBT-A955\r\n", "XYZ-1234\r\n",
      "AOK\r\n", "?\r\n", "Reboot\r\n", "Reboot!\r\n", "Mstr\r\n",
      "Ver 6.15 04/26/2013\r\n(c) Roving Networks\r\n" }

\* kind "bytes": decodable bytes returned; "badbytes": bytes returned that
\* .decode() rejects; "timeout": serial.SerialTimeoutException raised;
\* "error": any other exception raised by the transport.
Outcomes ==
    [kind : {"bytes"}, data : RawReplies]
      \cup [kind : {"badbytes", "timeout", "error"}, data : {""}]

\* The exception a failed SendReceive(...).decode() raises, by outcome kind.
TransportException(o) ==
    CASE o.kind = "timeout"  -> "SerialTimeoutException"
      [] o.kind = "error"    -> "SerialException"
      [] o.kind = "badbytes" -> "UnicodeDecodeError"
      [] OTHER               -> ""

\* Return values of the methods.
RetTrue == [t |-> "True", v |-> ""]
RetFalse == [t |-> "False", v |-> ""]
RetNone == [t |-> "None", v |-> ""]
RetStr(s) == [t |-> "str", v |-> s]
NoRet == [t |-> "", v |-> ""]

\* One SendReceive call as seen on the transport: the bytes handed over, the
\* retry budget given with them (retry=self.RETRY), and the value of
\* self._command_mode at that moment.
Sent(data) == [data |-> data, retry |-> RETRY, cm |-> command_mode]

----------------------------------------------------------------------------
(* serial_send_and_receive: the result of one transaction                  *)

\* Variant: the exact expectation is tested by containment.
mismatch_loose(expect, expect_in, result) ==
    \/ (expect # "" /\ ~Contains(expect, result))
    \/ (expect_in # "" /\ ~Contains(expect_in, result))

\* (expect and expect != result) or (expect_in and expect_in not in result)
mismatch(expect, expect_in, result) ==
    \/ (expect # "" /\ expect # result)
    \/ (expect_in # "" /\ ~Contains(expect_in, result))

\* Variant: a transport timeout yields an empty result instead of an error.
serial_send_and_receive_quiet(command, expect, expect_in, msg, o) ==
    LET sent   == Sent(command \o NEWLINE)
        result == strip(o.data)
    IN  IF o.kind \in {"badbytes", "error"}
        THEN [ok |-> FALSE, value |-> "", sent |-> sent,
              err |-> "Failulre in " \o msg]
        ELSE IF mismatch(expect, expect_in, result)
        THEN [ok |-> FALSE, value |-> "", sent |-> sent,
              err |-> "Failulre in " \o msg]
        ELSE [ok |-> TRUE, value |-> result, sent |-> sent, err |-> ""]

\* [ok, value, err, sent]: ok = returned normally with value; otherwise an
\* RN42Exception with message err was raised.
serial_send_and_receive(command, expect, expect_in, msg, o) ==
    LET sent   == Sent(command \o NEWLINE)
        result == strip(o.data)
    IN  IF o.kind # "bytes"
        THEN [ok |-> FALSE, value |-> "", sent |-> sent,
              err |-> "Failulre in " \o msg]
        ELSE IF mismatch(expect, expect_in, result)
        THEN \* the RN42Exception raised at line 190 is caught at line 191
             [ok |-> FALSE, value |-> "", sent |-> sent,
              err |-> "Failulre in " \o msg]
        ELSE [ok |-> TRUE, value |-> result, sent |-> sent, err |-> ""]

get_chip_name_txn(o) ==
    serial_send_and_receive(CMD_GET_CHIP_NAME, "", "", "getting chip name", o)

----------------------------------------------------------------------------
(* Recording a call                                                        *)

Call(op, replies, sent, disc, outcome, exc, err, ret) ==
    [op |-> op, pre_cm |-> command_mode, pre_closed |-> closed,
     replies |-> replies, sent |-> sent, disc |-> disc,
     outcome |-> outcome, exc |-> exc, err |-> err, ret |-> ret]

Callable == alive /\ nOps < MaxOps

Init ==
    /\ command_mode = FALSE
    /\ closed = FALSE
    /\ alive = TRUE
    /\ disconnects = 0
    /\ nOps = 0
    /\ last = [op |-> "__init__", pre_cm |-> FALSE, pre_closed |-> FALSE,
               replies |-> <<>>, sent |-> <<>>, disc |-> 0,
               outcome |-> "return", exc |-> "", err |-> "", ret |-> RetNone]

----------------------------------------------------------------------------
(* enter_command_mode                                                      *)

\* Variant: the marker must be the whole reply.
entry_marker_found_exact(result) == result = "CMD"

\* 'CMD' in result
entry_marker_found(result) == Contains("CMD", result)

\* Variant: every reply without the marker is probed.
entry_ambiguous_any(result) == TRUE

\* result == '': the entry token got no recognisable reply
entry_ambiguous(result) == result = ""

\* Variant: the chip name must equal the prefix.
chip_name_ok_exact(chip_name) == chip_name = CHIP_NAME

\* chip_name.startswith(self.CHIP_NAME)
chip_name_ok(chip_name) == startswith(chip_name, CHIP_NAME)

enter_command_mode(o1, o2) ==
    /\ Callable
    /\ nOps' = nOps + 1
    /\ UNCHANGED <<closed, alive, disconnects>>
    /\ LET s1     == Sent(CMD_ENTER_COMMAND_MODE)
           result == strip(o1.data)
           probe  == get_chip_name_txn(o2)
       IN  IF o1.kind = "timeout"
           THEN /\ UNCHANGED command_mode
                /\ last' = Call("enter_command_mode", <<o1>>, <<s1>>, 0,
                                "raise", "RN42Exception",
                                "Failure in entering command mode.", NoRet)
           ELSE IF o1.kind # "bytes"
           THEN \* not a SerialTimeoutException: propagates unchanged
                /\ UNCHANGED command_mode
                /\ last' = Call("enter_command_mode", <<o1>>, <<s1>>, 0,
                                "raise", TransportException(o1), "", NoRet)
           ELSE IF entry_marker_found(result)
           THEN /\ command_mode' = TRUE
                /\ last' = Call("enter_command_mode", <<o1>>, <<s1>>, 0,
                                "return", "", "", RetTrue)
           ELSE IF entry_ambiguous(result)
           THEN IF probe.ok /\ chip_name_ok(probe.value)
                THEN /\ command_mode' = TRUE
                     /\ last' = Call("enter_command_mode", <<o1, o2>>,
                                     <<s1, probe.sent>>, 0,
                                     "return", "", "", RetTrue)
                ELSE \* both the probe's failure and the RN42Exception of
                     \* line 236 are caught at line 237
                     /\ UNCHANGED command_mode
                     /\ last' = Call("enter_command_mode", <<o1, o2>>,
                                     <<s1, probe.sent>>, 0,
                                     "raise", "RN42Exception",
                                     "Failure to get chip name in entering command mode.",
                                     NoRet)
           ELSE /\ UNCHANGED command_mode
                /\ last' = Call("enter_command_mode", <<o1>>, <<s1>>, 0,
                                "raise", "RN42Exception",
                                "Incorrect response in entering command mode: "
                                    \o result,
                                NoRet)

----------------------------------------------------------------------------
(* leave_command_mode, close, __del__                                      *)

\* Variant: 'END' accepted anywhere in the reply (expect_in for expect).
leave_txn_substring(o) ==
    serial_send_and_receive(CMD_LEAVE_COMMAND_MODE, "", "END",
                            "leaving command mode", o)

\* The exit transaction: '---' with the exact expectation 'END'
leave_txn(o) ==
    serial_send_and_receive(CMD_LEAVE_COMMAND_MODE, "END", "",
                            "leaving command mode", o)

\* Variant: the exit command is sent whatever the flag says.
leave_command_mode_result_unguarded(o) ==
    LET txn == leave_txn(o)
    IN  IF txn.ok
        THEN [ok |-> TRUE, sent |-> <<txn.sent>>, replies |-> <<o>>,
              err |-> "", command_mode |-> FALSE]
        ELSE [ok |-> FALSE, sent |-> <<txn.sent>>, replies |-> <<o>>,
              err |-> txn.err, command_mode |-> command_mode]

\* Variant: the flag is cleared before the exit transaction is validated.
leave_command_mode_result_eager(o) ==
    LET txn == leave_txn(o)
    IN  IF command_mode
        THEN [ok |-> txn.ok, sent |-> <<txn.sent>>, replies |-> <<o>>,
              err |-> txn.err, command_mode |-> FALSE]
        ELSE [ok |-> TRUE, sent |-> <<>>, replies |-> <<>>,
              err |-> "", command_mode |-> FALSE]

\* What leave_command_mode does in the current state when the transport
\* answers o: [ok, sent, replies, err, command_mode] (command_mode = the
\* flag afterwards).
leave_command_mode_result(o) ==
    LET txn == leave_txn(o)
    IN  IF command_mode
        THEN IF txn.ok
             THEN [ok |-> TRUE, sent |-> <<txn.sent>>, replies |-> <<o>>,
                   err |-> "", command_mode |-> FALSE]
             ELSE [ok |-> FALSE, sent |-> <<txn.sent>>, replies |-> <<o>>,
                   err |-> txn.err, command_mode |-> TRUE]
        ELSE [ok |-> TRUE, sent |-> <<>>, replies |-> <<>>,
              err |-> "", command_mode |-> FALSE]

leave_command_mode(o) ==
    /\ Callable
    /\ nOps' = nOps + 1
    /\ UNCHANGED <<closed, alive, disconnects>>
    /\ LET r == leave_command_mode_result(o)
       IN  /\ command_mode' = r.command_mode
           /\ last' = IF r.ok
                      THEN Call("leave_command_mode", r.replies, r.sent, 0,
                                "return", "", "", RetTrue)
                      ELSE Call("leave_command_mode", r.replies, r.sent, 0,
                                "raise", "RN42Exception", r.err, NoRet)

\* Variant: the session is never marked closed.
close_body_unmarked(op, o) ==
    LET r == leave_command_mode_result(o)
    IN  IF ~closed
        THEN IF r.ok
             THEN /\ command_mode' = r.command_mode
                  /\ disconnects' = disconnects + 1
                  /\ UNCHANGED closed
                  /\ last' = Call(op, r.replies, r.sent, 1,
                                  "return", "", "", RetNone)
             ELSE /\ command_mode' = r.command_mode
                  /\ UNCHANGED <<disconnects, closed>>
                  /\ last' = Call(op, r.replies, r.sent, 0,
                                  "raise", "RN42Exception", r.err, NoRet)
        ELSE /\ UNCHANGED <<command_mode, disconnects, closed>>
             /\ last' = Call(op, <<>>, <<>>, 0, "return", "", "", RetNone)

\* The body of close(), run under the name op (close itself, or __del__).
close_body(op, o) ==
    LET r == leave_command_mode_result(o)
    IN  IF ~closed
        THEN IF r.ok
             THEN /\ command_mode' = r.command_mode
                  /\ disconnects' = disconnects + 1
                  /\ closed' = TRUE
                  /\ last' = Call(op, r.replies, r.sent, 1,
                                  "return", "", "", RetNone)
             ELSE \* the exception of leave_command_mode propagates:
                  \* lines 154 and 155 are not reached
                  /\ command_mode' = r.command_mode
                  /\ UNCHANGED <<disconnects, closed>>
                  /\ last' = Call(op, r.replies, r.sent, 0,
                                  "raise", "RN42Exception", r.err, NoRet)
        ELSE /\ UNCHANGED <<command_mode, disconnects, closed>>
             /\ last' = Call(op, <<>>, <<>>, 0, "return", "", "", RetNone)

close(o) ==
    /\ Callable
    /\ nOps' = nOps + 1
    /\ UNCHANGED alive
    /\ close_body("close", o)

\* The finaliser: runs close() once, when the object is collected; no method
\* can be called afterwards.
__del__(o) ==
    /\ Callable
    /\ nOps' = nOps + 1
    /\ alive' = FALSE
    /\ close_body("__del__", o)

----------------------------------------------------------------------------
(* The one-transaction methods                                             *)

\* Variant: an unknown key is handed back as its own label.
dict_get_default(table, key) ==
    IF \E p \in table : p[1] = key
    THEN RetStr((CHOOSE p \in table : p[1] = key)[2])
    ELSE RetStr(key)

\* dict.get(key): the value, or None
dict_get(table, key) ==
    IF \E p \in table : p[1] = key
    THEN RetStr((CHOOSE p \in table : p[1] = key)[2])
    ELSE RetNone

\* s.split(',')[0]
RECURSIVE split_first(_)
split_first(s) ==
    IF Len(s) = 0 \/ SubSeq(s, 1, 1) = ","
    THEN ""
    ELSE SubSeq(s, 1, 1) \o split_first(SubSeq(s, 2, Len(s)))

\* Variant: a successful transaction also resets the command-mode flag.
Method_reset(op, o, txn, ret) ==
    /\ Callable
    /\ nOps' = nOps + 1
    /\ command_mode' = IF txn.ok THEN FALSE ELSE command_mode
    /\ UNCHANGED <<closed, alive, disconnects>>
    /\ last' = IF txn.ok
               THEN Call(op, <<o>>, <<txn.sent>>, 0, "return", "", "", ret)
               ELSE Call(op, <<o>>, <<txn.sent>>, 0,
                         "raise", "RN42Exception", txn.err, NoRet)

\* A method that runs one transaction txn and, when it succeeds, returns
\* ret; the session flags are not touched.
Method(op, o, txn, ret) ==
    /\ Callable
    /\ nOps' = nOps + 1
    /\ UNCHANGED <<command_mode, closed, alive, disconnects>>
    /\ last' = IF txn.ok
               THEN Call(op, <<o>>, <<txn.sent>>, 0, "return", "", "", ret)
               ELSE Call(op, <<o>>, <<txn.sent>>, 0,
                         "raise", "RN42Exception", txn.err, NoRet)

\* A setter: expects the exact acknowledgement and returns True.
Setter(op, o, command, msg) ==
    Method(op, o, serial_send_and_receive(command, AOK, "", msg, o), RetTrue)

reboot(o) ==
    Method("reboot", o,
           serial_send_and_receive(CMD_REBOOT, "Reboot", "",
                                   "rebooting RN-42", o),
           RetTrue)

get_chip_name(o) ==
    LET txn == get_chip_name_txn(o)
    IN  Method("get_chip_name", o, txn, RetStr(txn.value))

get_firmware_version(o) ==
    LET txn == serial_send_and_receive(CMD_GET_FIRMWARE_VERSION, "", "Ver",
                                       "getting firmware version", o)
    IN  Method("get_firmware_version", o, txn, RetStr(txn.value))

get_operation_mode(o) ==
    LET txn == serial_send_and_receive(CMD_GET_OPERATION_MODE, "", "",
                                       "getting operation mode", o)
    IN  Method("get_operation_mode", o, txn,
               dict_get(OPERATION_MODE, txn.value))

set_master_mode(o) ==
    Setter("set_master_mode", o, CMD_SET_MASTER_MODE, "setting master mode")

set_slave_mode(o) ==
    Setter("set_slave_mode", o, CMD_SET_SLAVE_MODE, "setting slave mode")

get_authentication_mode(o) ==
    LET txn == serial_send_and_receive(CMD_GET_AUTHENTICATION_MODE, "", "",
                                       "getting authentication mode", o)
    IN  Method("get_authentication_mode", o, txn,
               dict_get(AUTHENTICATION_MODE, txn.value))

set_authentication_open_mode(o) ==
    Setter("set_authentication_open_mode", o,
           CMD_SET_AUTHENTICATION_OPEN_MODE,
           "setting authentication open mode")

set_authentication_pin_mode(o) ==
    Setter("set_authentication_pin_mode", o,
           CMD_SET_AUTHENTICATION_PIN_MODE,
           "setting authentication pin mode")

get_service_profile(o) ==
    LET txn == serial_send_and_receive(CMD_GET_SERVICE_PROFILE, "", "",
                                       "getting service profile", o)
    IN  Method("get_service_profile", o, txn,
               dict_get(SERVICE_PROFILE, txn.value))

set_service_profile_SPP(o) ==
    Setter("set_service_profile_SPP", o, CMD_SET_SERVICE_PROFILE_SPP,
           "setting SPP as service profile")

set_service_profile_HID(o) ==
    Setter("set_service_profile_HID", o, CMD_SET_SERVICE_PROFILE_HID,
           "setting HID as service profile")

get_local_bluetooth_address(o) ==
    LET txn == serial_send_and_receive(CMD_GET_RN42_BLUETOOTH_MAC, "", "",
                                       "getting local bluetooth address", o)
    IN  Method("get_local_bluetooth_address", o, txn, RetStr(txn.value))

get_connection_status(o) ==
    LET txn == serial_send_and_receive(CMD_GET_CONNECTION_STATUS, "", "",
                                       "getting connection status", o)
    IN  Method("get_connection_status", o, txn,
               IF split_first(txn.value) = "1" THEN RetTrue ELSE RetFalse)

get_remote_connected_bluetooth_address(o) ==
    LET txn == serial_send_and_receive(
                   CMD_GET_REMOTE_CONNECTED_BLUETOOTH_MAC, "", "",
                   "getting local bluetooth address", o)
    IN  Method("get_remote_connected_bluetooth_address", o, txn,
               IF txn.value = "000000000000"
               THEN RetNone ELSE RetStr(txn.value))

get_HID_deviceType(o) ==
    LET txn == serial_send_and_receive(CMD_GET_HID, "", "",
                                       "getting HID device type", o)
    IN  Method("get_HID_deviceType", o, txn,
               dict_get(HID_DEVICE_TYPE, txn.value))

set_HID_keyboard(o) ==
    Setter("set_HID_keyboard", o, CMD_SET_HID_KEYBOARD,
           "setting keyboard as HID device")

set_HID_gamepad(o) ==
    Setter("set_HID_gamepad", o, CMD_SET_HID_GAMEPAD,
           "setting gamepad as HID device")

set_HID_mouse(o) ==
    Setter("set_HID_mouse", o, CMD_SET_HID_MOUSE,
           "setting mouse as HID device")

set_HID_combo(o) ==
    Setter("set_HID_combo", o, CMD_SET_HID_COMBO,
           "setting combo as HID device")

set_HID_joystick(o) ==
    Setter("set_HID_joystick", o, CMD_SET_HID_JOYSTICK,
           "setting joystick as HID device")

----------------------------------------------------------------------------
Next ==
    \/ \E o1, o2 \in Outcomes : enter_command_mode(o1, o2)
    \/ \E o \in Outcomes : leave_command_mode(o)
    \/ \E o \in Outcomes : close(o)
    \/ \E o \in Outcomes : __del__(o)
    \/ \E o \in Outcomes : reboot(o)
    \/ \E o \in Outcomes : get_chip_name(o)
    \/ \E o \in Outcomes : get_firmware_version(o)
    \/ \E o \in Outcomes : get_operation_mode(o)
    \/ \E o \in Outcomes : set_master_mode(o)
    \/ \E o \in Outcomes : set_slave_mode(o)
    \/ \E o \in Outcomes : get_authentication_mode(o)
    \/ \E o \in Outcomes : set_authentication_open_mode(o)
    \/ \E o \in Outcomes : set_authentication_pin_mode(o)
    \/ \E o \in Outcomes : get_service_profile(o)
    \/ \E o \in Outcomes : set_service_profile_SPP(o)
    \/ \E o \in Outcomes : set_service_profile_HID(o)
    \/ \E o \in Outcomes : get_local_bluetooth_address(o)
    \/ \E o \in Outcomes : get_connection_status(o)
    \/ \E o \in Outcomes : get_remote_connected_bluetooth_address(o)
    \/ \E o \in Outcomes : get_HID_deviceType(o)
    \/ \E o \in Outcomes : set_HID_keyboard(o)
    \/ \E o \in Outcomes : set_HID_gamepad(o)
    \/ \E o \in Outcomes : set_HID_mouse(o)
    \/ \E o \in Outcomes : set_HID_combo(o)
    \/ \E o \in Outcomes : set_HID_joystick(o)

Spec == Init /\ [][Next]_vars

\* The decoding getters alone, answered with every code of the four tables
\* and with codes that are in none of them.
DecodeReplies ==
    { p[1] \o NEWLINE :
        p \in OPERATION_MODE \cup AUTHENTICATION_MODE
                \cup SERVICE_PROFILE \cup HID_DEVICE_TYPE }
      \cup { "", "9\r\n", "slav\r\n", "0280\r\n", "MASTER\r\n" }

DecodeOutcomes ==
    [kind : {"bytes"}, data : DecodeReplies]
      \cup [kind : {"timeout"}, data : {""}]

NextDecode ==
    \/ \E o \in DecodeOutcomes : get_operation_mode(o)
    \/ \E o \in DecodeOutcomes : get_authentication_mode(o)
    \/ \E o \in DecodeOutcomes : get_service_profile(o)
    \/ \E o \in DecodeOutcomes : get_HID_deviceType(o)

SpecDecode == Init /\ [][NextDecode]_vars
----------------------------------------------------------------------------
(* Properties                                                              *)

\* The trimmed text of the i-th reply consumed by the last call.
ReplyText(i) == strip(last.replies[i].data)

\* The last call got decodable bytes as its i-th reply.
GotBytes(i) == Len(last.replies) >= i /\ last.replies[i].kind = "bytes"

IsClose == last.op \in {"close", "__del__"}

\* C1: every close() on a session that is not yet closed disconnects the
\* transport and marks the session closed, whatever the leave attempt did.
C1_CloseBestEffort ==
    (IsClose /\ ~last.pre_closed) => (last.disc = 1 /\ closed)

\* C2: Disconnect is called at most once over a whole session; a close()
\* (or __del__) on a closed session sends nothing, disconnects nothing and
\* raises nothing, so that exactly one disconnect has happened after it.
C2_CloseIdempotent ==
    /\ disconnects <= 1
    /\ (IsClose /\ last.pre_closed) =>
          /\ last.sent = <<>>
          /\ last.disc = 0
          /\ last.outcome = "return"
          /\ disconnects = 1
          /\ closed

C2_Witness ==
    IsClose /\ last.pre_closed /\ last.outcome = "return" /\ disconnects = 1

\* C3: once the session is closed no call hands anything to the transport,
\* and the session stays closed.
C3_NoTransactionAfterClose ==
    last.pre_closed => (last.sent = <<>> /\ closed)

\* C4: whenever a command line other than the entry token '$$$' is handed to
\* the transport, the command-mode flag is true at that moment.
C4_CommandModePrecondition ==
    \A i \in DOMAIN last.sent :
        last.sent[i].data # "$$$" => last.sent[i].cm

\* C5: entry with an empty reply followed by a probe that returns a name not
\* starting with 'RNBT' fails with an error whose message names that chip
\* name, and leaves the command-mode flag unchanged.
C5_ProbeMismatchNamesChip ==
    ( /\ last.op = "enter_command_mode"
      /\ GotBytes(1) /\ ReplyText(1) = ""
      /\ GotBytes(2) /\ ~startswith(ReplyText(2), "RNBT") )
    => /\ last.outcome = "raise"
       /\ Contains(ReplyText(2), last.err)
       /\ command_mode = last.pre_cm

\* C6: entry with an empty (trimmed) reply issues exactly one probe,
\* 'GN' + CR LF, after the entry token; when the probe returns a name
\* starting with 'RNBT' the flag becomes true and True is returned.
C6_EmptyReplyProbes ==
    ( /\ last.op = "enter_command_mode"
      /\ GotBytes(1) /\ ReplyText(1) = "" )
    => /\ Len(last.sent) = 2
       /\ last.sent[1].data = "$$$"
       /\ last.sent[2].data = "GN\r\n"
       /\ (GotBytes(2) /\ startswith(ReplyText(2), "RNBT"))
             => /\ command_mode
                /\ last.outcome = "return"
                /\ last.ret = RetTrue

C6_Witness ==
    /\ last.op = "enter_command_mode"
    /\ GotBytes(1) /\ ReplyText(1) = ""
    /\ GotBytes(2) /\ ReplyText(2) = "RNBT-A955"
    /\ ~last.pre_cm /\ command_mode

\* C7: entry from data mode with a trimmed reply that contains 'CMD' sets
\* the flag, returns True and sends nothing but the entry token.
C7_MarkerEnters ==
    ( /\ last.op = "enter_command_mode"
      /\ ~last.pre_cm
      /\ GotBytes(1) /\ Contains("CMD", ReplyText(1)) )
    => /\ command_mode
       /\ last.outcome = "return"
       /\ last.ret = RetTrue
       /\ Len(last.sent) = 1
       /\ last.sent[1].data = "$$$"

C7_Witness ==
    /\ last.op = "enter_command_mode"
    /\ ~last.pre_cm
    /\ GotBytes(1) /\ ReplyText(1) = "x?CMD"
    /\ command_mode

\* C8: entry with a trimmed reply that is neither empty nor contains 'CMD'
\* fails at once: one exchange only, an RN42Exception whose message
\* includes the reply, and the flag unchanged.
C8_OtherReplyFails ==
    ( /\ last.op = "enter_command_mode"
      /\ GotBytes(1)
      /\ ReplyText(1) # ""
      /\ ~Contains("CMD", ReplyText(1)) )
    => /\ last.outcome = "raise"
       /\ last.exc = "RN42Exception"
       /\ Len(last.sent) = 1
       /\ Contains(ReplyText(1), last.err)
       /\ command_mode = last.pre_cm

C8_Witness ==
    /\ last.op = "enter_command_mode"
    /\ GotBytes(1) /\ ReplyText(1) = "XYZ-1234"
    /\ last.outcome = "raise"

\* C9: leave_command_mode with the flag false returns True, sends nothing
\* and changes neither flag, however often it is called.
C9_LeaveInDataModeNoOp ==
    (last.op = "leave_command_mode" /\ ~last.pre_cm)
    => /\ last.outcome = "return"
       /\ last.ret = RetTrue
       /\ last.sent = <<>>
       /\ command_mode = last.pre_cm
       /\ closed = last.pre_closed

C9_Witness ==
    /\ last.op = "leave_command_mode"
    /\ ~last.pre_cm
    /\ nOps >= 2
    /\ last.outcome = "return"

\* C10: leave_command_mode with the flag true sends '---' (+ CR LF) and
\* commits iff the trimmed reply is exactly 'END': then the flag is false
\* and True is returned; on anything else the call raises and the flag
\* stays true.
C10_LeaveCommitsOnExactEnd ==
    (last.op = "leave_command_mode" /\ last.pre_cm)
    => /\ Len(last.sent) = 1
       /\ last.sent[1].data = "---\r\n"
       /\ IF GotBytes(1) /\ ReplyText(1) = "END"
          THEN ~command_mode /\ last.outcome = "return" /\ last.ret = RetTrue
          ELSE command_mode /\ last.outcome = "raise"

C10_Witness ==
    /\ last.op = "leave_command_mode"
    /\ last.pre_cm
    /\ GotBytes(1) /\ ReplyText(1) = "ENDED"
    /\ command_mode /\ last.outcome = "raise"
\* Some reply consumed by the last call was a transport timeout.
TimedOut == \E i \in DOMAIN last.replies : last.replies[i].kind = "timeout"

WireCommand ==
    { <<"reboot", "R,1">>, <<"get_chip_name", "GN">>,
      <<"get_firmware_version", "V">>, <<"get_operation_mode", "GM">>,
      <<"set_master_mode", "SM,1">>, <<"set_slave_mode", "SM,0">>,
      <<"get_authentication_mode", "GA">>,
      <<"set_authentication_open_mode", "SA,0">>,
      <<"set_authentication_pin_mode", "SA,4">>,
      <<"get_service_profile", "G~">>,
      <<"set_service_profile_SPP", "S~,0">>,
      <<"set_service_profile_HID", "S~,6">>,
      <<"get_local_bluetooth_address", "GB">>,
      <<"get_connection_status", "GK">>,
      <<"get_remote_connected_bluetooth_address", "GF">>,
      <<"get_HID_deviceType", "GH">>,
      <<"set_HID_keyboard", "SH,0000">>, <<"set_HID_gamepad", "SH,0010">>,
      <<"set_HID_mouse", "SH,0020">>, <<"set_HID_combo", "SH,0030">>,
      <<"set_HID_joystick", "SH,0040">>,
      <<"leave_command_mode", "---">>, <<"close", "---">>,
      <<"__del__", "---">> }

\* C12: every command but the entry token reaches the transport as its text
\* followed by CR LF; the entry token reaches it as exactly '$$$'.
C12_WireFormat ==
    /\ \A p \in WireCommand :
          last.op = p[1] =>
              \A i \in DOMAIN last.sent :
                  last.sent[i].data = p[2] \o "\r\n"
    /\ last.op = "enter_command_mode" =>
          /\ Len(last.sent) >= 1
          /\ last.sent[1].data = "$$$"
          /\ \A i \in 2..Len(last.sent) : last.sent[i].data = "GN\r\n"
    /\ \A i \in DOMAIN last.sent :
          \/ last.sent[i].data = "$$$"
          \/ /\ Len(last.sent[i].data) > 2
             /\ SubSeq(last.sent[i].data, Len(last.sent[i].data) - 1,
                       Len(last.sent[i].data)) = "\r\n"

C12_Witness ==
    /\ last.op = "enter_command_mode"
    /\ Len(last.sent) = 2
    /\ last.sent[1].data = "$$$"
    /\ last.sent[2].data = "GN\r\n"

\* The label (msg) of each one-transaction method.
Label ==
    { <<"reboot", "rebooting RN-42">>,
      <<"get_firmware_version", "getting firmware version">>,
      <<"set_master_mode", "setting master mode">>,
      <<"set_slave_mode", "setting slave mode">>,
      <<"leave_command_mode", "leaving command mode">> }

\* C13: a failed transaction raises one RN42Exception that carries the
\* operation's label and the raw result received; on a mismatch the error
\* contains the offending response text.
C13_ErrorCarriesResult ==
    \A p \in Label :
        (last.op = p[1] /\ last.outcome = "raise")
        => /\ last.exc = "RN42Exception"
           /\ Contains(p[2], last.err)
           /\ GotBytes(1) => Contains(ReplyText(1), last.err)

\* C14: every failure of every operation reaches the caller as
\* RN42Exception and as nothing else.
C14_SingleErrorKind ==
    last.outcome = "raise" => last.exc = "RN42Exception"

\* C15: a call that ends by raising leaves both session flags as they were
\* before the call.
C15_NoMutationOnFailure ==
    last.outcome = "raise"
    => (command_mode = last.pre_cm /\ closed = last.pre_closed)

C15_Witness ==
    /\ last.op = "leave_command_mode"
    /\ last.pre_cm
    /\ last.outcome = "raise"
    /\ command_mode

\* C16: reboot sends 'R,1' and succeeds exactly when the trimmed reply
\* contains 'Reboot'.
C16_RebootSubstring ==
    (last.op = "reboot" /\ GotBytes(1))
    => /\ last.sent[1].data = "R,1\r\n"
       /\ (last.outcome = "return" /\ last.ret = RetTrue)
             <=> Contains("Reboot", ReplyText(1))

\* The four decoding tables as documented: <<getter, code, label>>.
Documented ==
    { <<"get_operation_mode", "Slav", "SLAVE">>,
      <<"get_operation_mode", "Mstr", "MASTER">>,
      <<"get_operation_mode", "Trig", "TRIGGER">>,
      <<"get_operation_mode", "Auto", "AUTO">>,
      <<"get_operation_mode", "DTR", "DTR">>,
      <<"get_operation_mode", "Any", "ANY">>,
      <<"get_operation_mode", "Pair", "PAIR">>,
      <<"get_authentication_mode", "0", "OPEN">>,
      <<"get_authentication_mode", "1", "SSP_KEYBOARD">>,
      <<"get_authentication_mode", "2", "SSP_JUST_WORK">>,
      <<"get_authentication_mode", "4", "PIN_CODE">>,
      <<"get_service_profile", "0", "SPP">>,
      <<"get_service_profile", "1", "DUN_DCE">>,
      <<"get_service_profile", "2", "DUN_DTE">>,
      <<"get_service_profile", "3", "MDM_SPP">>,
      <<"get_service_profile", "4", "SPP_AND_DUN_DCE">>,
      <<"get_service_profile", "5", "APL">>,
      <<"get_service_profile", "6", "HID">>,
      <<"get_HID_deviceType", "0200", "KEYBOARD">>,
      <<"get_HID_deviceType", "0210", "GAMEPAD">>,
      <<"get_HID_deviceType", "0220", "MOUSE">>,
      <<"get_HID_deviceType", "0230", "COMBO">>,
      <<"get_HID_deviceType", "0240", "JOYSTICK">>,
      <<"get_HID_deviceType", "0250", "DIGITIZER">>,
      <<"get_HID_deviceType", "0260", "SENSOR">>,
      <<"get_HID_deviceType", "0270", "USECFG">> }

DecodingGetters ==
    { "get_operation_mode", "get_authentication_mode",
      "get_service_profile", "get_HID_deviceType" }

\* C17: a decoding getter whose trimmed reply is a code of its table returns
\* the documented label; for any other reply it returns None and does not
\* raise.
C17_Decoding ==
    (last.op \in DecodingGetters /\ GotBytes(1))
    => /\ last.outcome = "return"
       /\ \A d \in Documented :
             (d[1] = last.op /\ d[2] = ReplyText(1))
                 => last.ret = RetStr(d[3])
       /\ (~\E d \in Documented : d[1] = last.op /\ d[2] = ReplyText(1))
             => last.ret = RetNone

C17_Witness ==
    /\ last.op = "get_authentication_mode"
    /\ GotBytes(1) /\ ReplyText(1) = "3"
    /\ last.ret = RetNone
    /\ nOps >= 2

\* Methods by the expectation they pass to the transaction.
ExactExpectation ==
    { <<"set_master_mode", "AOK">>, <<"set_slave_mode", "AOK">>,
      <<"set_authentication_open_mode", "AOK">>,
      <<"set_authentication_pin_mode", "AOK">>,
      <<"set_service_profile_SPP", "AOK">>,
      <<"set_service_profile_HID", "AOK">>,
      <<"set_HID_keyboard", "AOK">>, <<"set_HID_gamepad", "AOK">>,
      <<"set_HID_mouse", "AOK">>, <<"set_HID_combo", "AOK">>,
      <<"set_HID_joystick", "AOK">>, <<"reboot", "Reboot">> }

SubstringExpectation == { <<"get_firmware_version", "Ver">> }

NoExpectation == { "get_chip_name", "get_local_bluetooth_address" }

\* C18: with an exact expectation the transaction fails exactly when the
\* trimmed result differs from the expected text; with a substring
\* expectation exactly when the text does not occur in it; with no
\* expectation never, and the trimmed result is returned.
C18_Validation ==
    GotBytes(1) =>
      /\ \A p \in ExactExpectation :
            last.op = p[1] =>
                (last.outcome = "raise" <=> ReplyText(1) # p[2])
      /\ \A p \in SubstringExpectation :
            last.op = p[1] =>
                /\ last.outcome = "raise" <=> ~Contains(p[2], ReplyText(1))
                /\ last.outcome = "return" => last.ret = RetStr(ReplyText(1))
      /\ last.op \in NoExpectation =>
            /\ last.outcome = "return"
            /\ last.ret = RetStr(ReplyText(1))

C18_Witness ==
    /\ last.op = "get_chip_name"
    /\ GotBytes(1) /\ ReplyText(1) = ""
    /\ last.outcome = "return"
    /\ last.ret = RetStr("")

StateChangingOps ==
    { "__init__", "enter_command_mode", "leave_command_mode", "close",
      "__del__" }

\* C19: reboot and every getter and setter leave both session flags
\* unchanged, whether they succeed or fail.
C19_OnlyStateMachineMutates ==
    last.op \notin StateChangingOps
    => (command_mode = last.pre_cm /\ closed = last.pre_closed)

C19_Witness ==
    /\ last.op = "reboot"
    /\ last.pre_cm /\ command_mode
    /\ last.outcome = "return"

\* C20: when close() returns normally the session is closed and out of
\* command mode (a close started in command mode sent the exit command and
\* got exactly 'END' before disconnecting), and a session that was closed
\* stays closed.
C20_CloseReturnsInDataMode ==
    /\ (last.op = "close" /\ last.outcome = "return")
          => /\ closed
             /\ ~command_mode
             /\ (last.pre_cm /\ ~last.pre_closed)
                   => /\ Len(last.sent) = 1
                      /\ last.sent[1].data = "---\r\n"
                      /\ GotBytes(1) /\ ReplyText(1) = "END"
                      /\ last.disc = 1
    /\ last.pre_closed => closed
====
